---- MODULE Spec2Model ----
(***************************************************************************)
(* RoadCast API: a forecast cache, a KNMI warnings fetcher and a response  *)
(* mapper, hosted by a FastAPI endpoint (api/index.py, get_weather) and by *)
(* a serverless handler (main.py, lambda_handler).                         *)
(***************************************************************************)
EXTENDS Integers, Sequences, FiniteSets, TLC

VARIABLES
    shell,          \* which hosting shell this process runs: "web" or "lambda"
    data_cache,     \* module global data_cache
    last_loaded,    \* module global last_loaded
    now,            \* the wall clock, in seconds (time.time())
    env_key,        \* the environment variable KNMI_API_KEY ("" when unset)
    last,           \* the request just handled (inputs, pre-state, response) until its
                    \* response is delivered; NoRequest between requests
    m_in, m_out,    \* weather_response_mapper: arguments and returned dict
    p_in, p_out,    \* parse_knmi_warnings: arguments and returned list
    pc, cur, resp, done, hist  \* concurrent requests: position, locals, results, history

vars == <<shell, data_cache, last_loaded, now, env_key, last, m_in, m_out, p_in, p_out,
          pc, cur, resp, done, hist>>

(***************************************************************************)
(* Bounds of the model.                                                    *)
(***************************************************************************)
MaxDays == 2        \* forecast days in an upstream payload: 0..MaxDays
MaxVer == 2         \* distinct forecast issues the upstream can return
MaxElapsed == 125   \* seconds of wall clock the model lets pass
MaxDayArg == 2      \* largest day index a request asks for
StartTime == 5000   \* the clock when the process starts
MaxWarn == 2        \* warning elements in a document handed to the parser
NumThreads == 2     \* requests running concurrently in one process

(***************************************************************************)
(* Program constants.                                                      *)
(***************************************************************************)
CACHE_TTL == 120
SecondsPerDay == 86400

None == [None |-> TRUE]     \* Python None where a JSON object may stand
Null == -1                  \* Python None where a per-day value may stand

(***************************************************************************)
(* Forecast payloads.  `daily` maps an upstream field name to the sequence *)
(* of per-day values; a value records the issue, the field and the day so  *)
(* that values of different fields, days and issues differ.                *)
(***************************************************************************)
DailyKeys ==
    <<"temperature_2m_min", "temperature_2m_max", "rain_sum", "showers_sum",
      "snowfall_sum", "sunrise", "sunset", "visibility_min", "visibility_max",
      "wind_speed_10m_max", "wind_gusts_10m_max">>

KeySet == {DailyKeys[i] : i \in 1..Len(DailyKeys)}

KeyIdx(k) == CHOOSE i \in 1..Len(DailyKeys) : DailyKeys[i] = k

Val(ver, k, d) == ver * 1000 + KeyIdx(k) * 10 + d

Series(ver, k, n) == [i \in 1..n |-> Val(ver, k, i - 1)]

\* A well-formed payload: all eleven fields, n days each.
Forecast(ver, n) == [daily |-> [k \in KeySet |-> Series(ver, k, n)]]

\* A payload in which field `gone` is absent and field `cut` is one day short
\* ("" for neither).
Ragged(ver, n, gone, cut) ==
    [daily |-> [k \in KeySet \ {gone} |->
                    Series(ver, k, IF k = cut /\ n > 0 THEN n - 1 ELSE n)]]

\* JSON objects that are not forecasts.
ErrorJson == [error |-> TRUE, reason |-> "upstream error"]
OtherJson == [latitude |-> 52, longitude |-> 4]

\* The number of forecast days a payload carries: the longest field sequence.
Max(S) == CHOOSE x \in S : \A y \in S : y <= x
NumDays(p) == Max({0} \cup {Len(p.daily[k]) : k \in DOMAIN p.daily})

IsForecast(p) == "daily" \in DOMAIN p

(***************************************************************************)
(* RoadCastApiResponse.from_api, to_dict and weather_response_mapper.      *)
(* A result is [exc |-> "" | exception name, val |-> value].               *)
(***************************************************************************)
Raise(e) == [exc |-> e, val |-> None]
Return(v) == [exc |-> "", val |-> v]

get_val_OffByOne(daily, key, index) ==
    LET vals == IF key \in DOMAIN daily THEN daily[key] ELSE <<>>
    IN  IF index + 1 < Len(vals)
        THEN [exc |-> "", v |-> vals[index + 1]]
        ELSE [exc |-> "", v |-> Null]

\* vals[index] if index < len(vals) else None; a negative index counts from
\* the end and raises IndexError beyond the start.
get_val(daily, key, index) ==
    LET vals == IF key \in DOMAIN daily THEN daily[key] ELSE <<>>
    IN  IF index < Len(vals)
        THEN IF index >= 0 THEN [exc |-> "", v |-> vals[index + 1]]
             ELSE IF Len(vals) + index >= 0
                  THEN [exc |-> "", v |-> vals[Len(vals) + index + 1]]
                  ELSE [exc |-> "IndexError", v |-> Null]
        ELSE [exc |-> "", v |-> Null]

FieldOf ==
    [min_temp |-> "temperature_2m_min", max_temp |-> "temperature_2m_max",
     rain |-> "rain_sum", showers |-> "showers_sum", snow |-> "snowfall_sum",
     sunrise |-> "sunrise", sunset |-> "sunset",
     min_visibility |-> "visibility_min", max_visibility |-> "visibility_max",
     wind_speed |-> "wind_speed_10m_max", wind_gusts |-> "wind_gusts_10m_max"]

OutFields == DOMAIN FieldOf

from_api(response, index) ==
    IF ~IsForecast(response) THEN Raise("KeyError")
    ELSE LET daily == response.daily
             got == [f \in OutFields |-> get_val(daily, FieldOf[f], index)]
         IN  IF \E f \in OutFields : got[f].exc # ""
             THEN Raise("IndexError")
             ELSE Return([min_temp |-> got["min_temp"].v,
                          max_temp |-> got["max_temp"].v,
                          rain |-> got["rain"].v,
                          showers |-> got["showers"].v,
                          snow |-> got["snow"].v,
                          sunrise |-> got["sunrise"].v,
                          sunset |-> got["sunset"].v,
                          min_visibility |-> got["min_visibility"].v,
                          max_visibility |-> got["max_visibility"].v,
                          wind_speed |-> got["wind_speed"].v,
                          wind_gusts |-> got["wind_gusts"].v,
                          warnings |-> <<>>])

\* A warnings argument: Python None, or a list.
NoWarnings == [isNone |-> TRUE, items |-> <<>>]
WList(s) == [isNone |-> FALSE, items |-> s]

\* `warnings or []`
OrEmpty(w) == IF w.isNone \/ w.items = <<>> THEN <<>> ELSE w.items

to_dict(api) ==
    [min_temp |-> api.min_temp, max_temp |-> api.max_temp, rain |-> api.rain,
     showers |-> api.showers, snow |-> api.snow, sunrise |-> api.sunrise,
     sunset |-> api.sunset, min_visibility |-> api.min_visibility,
     max_visibility |-> api.max_visibility, wind_speed |-> api.wind_speed,
     wind_gusts |-> api.wind_gusts, warnings |-> api.warnings]

weather_response_mapper(response, day_index, warnings) ==
    LET api == from_api(response, day_index)
    IN  IF api.exc # "" THEN api
        ELSE Return([api.val EXCEPT !.warnings = OrEmpty(warnings)])

\* weather_response_mapper(...).to_dict()
MapToDict(response, day_index, warnings) ==
    LET api == weather_response_mapper(response, day_index, warnings)
    IN  IF api.exc # "" THEN api ELSE Return(to_dict(api.val))

(***************************************************************************)
(* KNMI warnings: parse_knmi_warnings.                                     *)
(* An instant is [sec, us]: whole seconds since the epoch (UTC) and the    *)
(* microsecond within the second.                                          *)
(***************************************************************************)
Instant(s, u) == [sec |-> s, us |-> u]

Leq(a, b) == a.sec < b.sec \/ (a.sec = b.sec /\ a.us <= b.us)

\* (now + timedelta(days=1)).replace(hour=23, minute=59, second=59): the date
\* of tomorrow at 23:59:59, the microsecond of `now` kept.
EndOfTomorrow(n) ==
    Instant(((n.sec + SecondsPerDay) \div SecondsPerDay) * SecondsPerDay
                + (SecondsPerDay - 1),
            n.us)

\* The text of a startTime/endTime element:
\*   [kind |-> "utc", sec, us]    an ISO time with a UTC offset
\*   [kind |-> "naive", sec, us]  an ISO time without offset
\*   [kind |-> "garbage"]         not an ISO time
\*   [kind |-> "missing"]         no such element (findtext gives None)
IsoUtc(s, u) == [kind |-> "utc", sec |-> s, us |-> u]
IsoNaive(s, u) == [kind |-> "naive", sec |-> s, us |-> u]
Garbage == [kind |-> "garbage"]
Missing == [kind |-> "missing"]

\* datetime.fromisoformat(text)
fromisoformat(text) ==
    CASE text.kind = "missing" -> Raise("TypeError")
      [] text.kind = "garbage" -> Raise("ValueError")
      [] OTHER -> Return([aware |-> text.kind = "utc",
                          t |-> Instant(text.sec, text.us)])

\* One iteration of the loop over root.findall(".//warning"): the entries the
\* element appends, or the exception it raises.  Comparing a naive datetime
\* with the aware `now` raises TypeError.
WarningStep(w, n) ==
    LET start == fromisoformat(w.startTime)
        end == fromisoformat(w.endTime)
    IN  IF start.exc # "" THEN start
        ELSE IF end.exc # "" THEN end
        ELSE IF ~start.val.aware THEN Raise("TypeError")
        ELSE IF Leq(start.val.t, EndOfTomorrow(n))
             THEN IF ~end.val.aware THEN Raise("TypeError")
                  ELSE IF Leq(n, end.val.t)
                       THEN Return(<<[color |-> w.awarenessLevel,
                                      type |-> w.phenomenon]>>)
                       ELSE Return(<<>>)
             ELSE Return(<<>>)

RECURSIVE WarningLoop(_, _, _)
WarningLoop(ws, n, results) ==
    IF ws = <<>> THEN Return(results)
    ELSE LET r == WarningStep(Head(ws), n)
         IN  IF r.exc # "" THEN r
             ELSE WarningLoop(Tail(ws), n, results \o r.val)

\* An XML text: [wellformed |-> FALSE], or the warning elements of the document.
Malformed == [wellformed |-> FALSE]
Xml(ws) == [wellformed |-> TRUE, warnings |-> ws]

parse_knmi_warnings(xml_text, n) ==
    IF ~xml_text.wellformed THEN Raise("ParseError")
    ELSE WarningLoop(xml_text.warnings, n, <<>>)

(***************************************************************************)
(* KNMI warnings: fetch_knmi_warnings.  `kn` is the provider's behaviour:  *)
(* kn.listing answers the file-listing call, kn.dl[url] the download.      *)
(***************************************************************************)
NetError == [kind |-> "neterr"]
NotJson == [kind |-> "notjson"]
Json(b) == [kind |-> "json", body |-> b]
Text(x) == [kind |-> "text", xml |-> x]

\* sorted(files, key=created, reverse=True)[0]: the first file, in listing
\* order, among those created latest (the sort is stable).
Latest(files) ==
    LET top == Max({files[i].created : i \in 1..Len(files)})
        i0 == CHOOSE i \in 1..Len(files) :
                 /\ files[i].created = top
                 /\ \A j \in 1..(i - 1) : files[j].created # top
    IN  files[i0]

fetch_knmi_warnings(kn) ==
    LET l == kn.listing
    IN  IF l.kind = "neterr" THEN [exc |-> "ConnectionError", val |-> None,
                                   calls |-> <<"knmi_list">>]
        ELSE IF l.kind = "notjson" THEN [exc |-> "JSONDecodeError", val |-> None,
                                         calls |-> <<"knmi_list">>]
        ELSE IF "files" \notin DOMAIN l.body
             THEN [exc |-> "KeyError", val |-> None, calls |-> <<"knmi_list">>]
        ELSE LET files == l.body.files
             IN  IF \E i \in 1..Len(files) : "created" \notin DOMAIN files[i]
                 THEN [exc |-> "KeyError", val |-> None, calls |-> <<"knmi_list">>]
                 ELSE IF files = <<>>
                 THEN [exc |-> "IndexError", val |-> None, calls |-> <<"knmi_list">>]
                 ELSE LET latest == Latest(files)
                      IN  IF "downloadUrl" \notin DOMAIN latest
                          THEN [exc |-> "KeyError", val |-> None,
                                calls |-> <<"knmi_list">>]
                          ELSE LET d == kn.dl[latest.downloadUrl]
                               IN  IF d.kind = "neterr"
                                   THEN [exc |-> "ConnectionError", val |-> None,
                                         calls |-> <<"knmi_list", "knmi_download">>]
                                   ELSE [exc |-> "", val |-> d.xml,
                                         calls |-> <<"knmi_list", "knmi_download">>]

(***************************************************************************)
(* The forecast call.  `fc` is what the forecast provider does with it:    *)
(* no response (timeout, connection error), or an HTTP status with a body  *)
(* that is JSON or not.                                                    *)
(***************************************************************************)
FcNetError == [kind |-> "neterr", status |-> 0, isjson |-> FALSE, json |-> None]
FcHttp(st, j) == [kind |-> "http", status |-> st, isjson |-> TRUE, json |-> j]
FcHttpText(st) == [kind |-> "http", status |-> st, isjson |-> FALSE, json |-> None]

NeedsFetch_AtTtl(cache, cache_age) == cache = None \/ cache_age >= CACHE_TTL

\* `data_cache is None or cache_age > CACHE_TTL`
NeedsFetch(cache, cache_age) == cache = None \/ cache_age > CACHE_TTL

\* api/index.py: requests.get(...); response.raise_for_status(); response.json()
WebFetchRaises(fc) == fc.kind = "neterr" \/ fc.status >= 400 \/ ~fc.isjson

\* main.py: requests.get(...).json()
LambdaFetchRaises(fc) == fc.kind = "neterr" \/ ~fc.isjson

\* The cache block of a handler: the pair of globals after it, whether the
\* request ends here with the 500 of the except branch, and the calls made.
CacheBlock(raises, cache, loaded, current_time, fc) ==
    IF NeedsFetch(cache, current_time - loaded)
    THEN IF ~raises
         THEN [data_cache |-> fc.json, last_loaded |-> current_time,
               fatal |-> FALSE, calls |-> <<"forecast">>]
         ELSE [data_cache |-> cache, last_loaded |-> loaded,
               fatal |-> cache = None, calls |-> <<"forecast">>]
    ELSE [data_cache |-> cache, last_loaded |-> loaded,
          fatal |-> FALSE, calls |-> <<>>]

\* fetch_knmi_warnings followed by parse_knmi_warnings, no handler around it.
WarningsPath(kn, n) ==
    LET f == fetch_knmi_warnings(kn)
    IN  IF f.exc # "" THEN f
        ELSE LET w == parse_knmi_warnings(f.val, n)
             IN  [exc |-> w.exc, val |-> w.val, calls |-> f.calls]

CatchWarnings_Uncaught(r) ==
    [warnings |-> IF r.exc # "" THEN <<>> ELSE r.val, exc |-> r.exc, calls |-> r.calls]

\* try: ... except Exception: warnings = []
CatchWarnings(r) ==
    [warnings |-> IF r.exc # "" THEN <<>> ELSE r.val, exc |-> "", calls |-> r.calls]

\* api/index.py: the path runs only when os.getenv("KNMI_API_KEY", "") is set.
WebWarnings(api_key, kn, n) ==
    IF api_key # "" THEN CatchWarnings(WarningsPath(kn, n))
    ELSE [warnings |-> <<>>, exc |-> "", calls |-> <<>>]

\* main.py: the path always runs, with the literal key "KNMI_API_KEY_HIER".
LambdaWarnings(api_key, kn, n) == CatchWarnings(WarningsPath(kn, n))

\* str(exc) of the exceptions the mapper can raise.
StrOf(e) == IF e = "KeyError" THEN "'daily'" ELSE e

\* The response block of get_weather; HTTPException(status, detail) is sent
\* by FastAPI as the JSON body {"detail": detail}.
WebBuild(cache, day, w) ==
    LET r == MapToDict(cache, day, WList(w.warnings))
    IN  IF w.exc # ""
        THEN [status |-> 500, body |-> [detail |-> "Internal Server Error"]]
        ELSE IF r.exc = "" THEN [status |-> 200, body |-> r.val]
        ELSE IF r.exc = "IndexError"
             THEN [status |-> 400, body |-> [detail |-> "Day index out of range"]]
             ELSE [status |-> 500, body |-> [detail |-> StrOf(r.exc)]]

\* The response block of lambda_handler.
LambdaBuild(cache, day, w) ==
    LET r == MapToDict(cache, day, WList(w.warnings))
    IN  IF w.exc # ""
        THEN [status |-> 502, body |-> [errorMessage |-> w.exc]]
        ELSE IF r.exc = "" THEN [status |-> 200, body |-> r.val]
        ELSE IF r.exc = "IndexError"
             THEN [status |-> 400, body |-> [error |-> "Day index out of range"]]
             ELSE [status |-> 500, body |-> [error |-> StrOf(r.exc)]]

\* The `day` query parameter as sent: absent, an integer, or other text.
DayAbsent == [kind |-> "absent", v |-> 0]
DayInt(n) == [kind |-> "int", v |-> n]
DayText == [kind |-> "text", v |-> 0]

\* day: int = Query(default=0, ge=0): FastAPI answers 422 to a value that is
\* not an integer >= 0 and does not call get_weather.
WebDay(q) ==
    CASE q.kind = "absent" -> [ok |-> TRUE, day |-> 0]
      [] q.kind = "int" -> [ok |-> q.v >= 0, day |-> q.v]
      [] OTHER -> [ok |-> FALSE, day |-> 0]

\* int(query_params.get('day', 0)), 0 on ValueError/TypeError, 0 when negative.
LambdaDay(q) ==
    CASE q.kind = "absent" -> 0
      [] q.kind = "int" -> IF q.v < 0 THEN 0 ELSE q.v
      [] OTHER -> 0

\* A handled request: [status, body, data_cache, last_loaded, calls, day].
get_weather(cache, loaded, current_time, q, fc, api_key, kn) ==
    LET d == WebDay(q)
        c == CacheBlock(WebFetchRaises(fc), cache, loaded, current_time, fc)
        w == WebWarnings(api_key, kn, Instant(current_time, 0))
        b == WebBuild(c.data_cache, d.day, w)
    IN  IF ~d.ok
        THEN [status |-> 422, body |-> [detail |-> "validation error"],
              data_cache |-> cache, last_loaded |-> loaded, calls |-> <<>>,
              day |-> d.day]
        ELSE IF c.fatal
        THEN [status |-> 500, body |-> [detail |-> "Weather fetch failed"],
              data_cache |-> c.data_cache, last_loaded |-> c.last_loaded,
              calls |-> c.calls, day |-> d.day]
        ELSE [status |-> b.status, body |-> b.body,
              data_cache |-> c.data_cache, last_loaded |-> c.last_loaded,
              calls |-> c.calls \o w.calls, day |-> d.day]

lambda_handler(cache, loaded, current_time, q, fc, api_key, kn) ==
    LET day_index == LambdaDay(q)
        c == CacheBlock(LambdaFetchRaises(fc), cache, loaded, current_time, fc)
        w == LambdaWarnings(api_key, kn, Instant(current_time, 0))
        b == LambdaBuild(c.data_cache, day_index, w)
    IN  IF c.fatal
        THEN [status |-> 500, body |-> [error |-> "Weather fetch failed"],
              data_cache |-> c.data_cache, last_loaded |-> c.last_loaded,
              calls |-> c.calls, day |-> day_index]
        ELSE [status |-> b.status, body |-> b.body,
              data_cache |-> c.data_cache, last_loaded |-> c.last_loaded,
              calls |-> c.calls \o w.calls, day |-> day_index]

(***************************************************************************)
(* Inputs of a request.                                                    *)
(***************************************************************************)
DayArgs == {DayAbsent, DayText} \cup {DayInt(n) : n \in (-1)..MaxDayArg}

ForecastResponses ==
    {FcNetError, FcHttpText(200), FcHttpText(500), FcHttp(200, OtherJson),
     FcHttp(500, ErrorJson)}
    \cup {FcHttp(200, Forecast(v, n)) : v \in 1..MaxVer, n \in {1, MaxDays}}

\* Warning elements, placed relative to the start of the run.
WActive ==
    [startTime |-> IsoUtc(StartTime - 3600, 0),
     endTime |-> IsoUtc(StartTime + 3600, 0),
     awarenessLevel |-> "yellow", phenomenon |-> "WIND"]
WExpired ==
    [startTime |-> IsoUtc(StartTime - 3600, 0),
     endTime |-> IsoUtc(StartTime - 60, 0),
     awarenessLevel |-> "orange", phenomenon |-> "GLADHEID"]
WNoStart ==
    [startTime |-> Missing, endTime |-> IsoUtc(StartTime + 3600, 0),
     awarenessLevel |-> "red", phenomenon |-> "SNEEUW"]
WBadEnd ==
    [startTime |-> IsoUtc(StartTime - 3600, 0), endTime |-> Garbage,
     awarenessLevel |-> "red", phenomenon |-> "SNEEUW"]

WNaive ==
    [startTime |-> IsoNaive(StartTime - 3600, 0),
     endTime |-> IsoNaive(StartTime + 3600, 0),
     awarenessLevel |-> "yellow", phenomenon |-> "WIND"]

Downloads ==
    {NetError, Text(Malformed), Text(Xml(<<>>)), Text(Xml(<<WActive, WExpired>>)),
     Text(Xml(<<WActive, WNoStart>>)), Text(Xml(<<WBadEnd>>)), Text(Xml(<<WNaive>>))}

\* Behaviours of the warnings provider: a listing that fails, is rejected,
\* is empty or lacks fields, and listings of two files of which "new" is the
\* latest.
KnmiBehaviours ==
    {[listing |-> l, dl |-> [old |-> Text(Xml(<<>>)), new |-> Text(Xml(<<>>))]] :
        l \in {NetError, NotJson, Json([message |-> "Forbidden"]),
               Json([files |-> <<>>]),
               Json([files |-> <<[downloadUrl |-> "new"]>>]),
               Json([files |-> <<[created |-> 1]>>])}}
    \cup
    {[listing |-> Json([files |-> <<[created |-> 1, downloadUrl |-> "old"],
                                    [created |-> 2, downloadUrl |-> "new"]>>]),
      dl |-> [old |-> Text(Xml(<<WExpired>>)), new |-> d]] : d \in Downloads}

NoRequest ==
    [shell |-> "", q |-> DayAbsent, t |-> 0, pre_cache |-> None, pre_loaded |-> 0,
     fc |-> FcNetError, kn |-> CHOOSE k \in KnmiBehaviours : TRUE,
     status |-> 0, body |-> None, calls |-> <<>>, day |-> 0]

Request(sh, q, fc, kn, r) ==
    [shell |-> sh, q |-> q, t |-> now, pre_cache |-> data_cache,
     pre_loaded |-> last_loaded, fc |-> fc, kn |-> kn,
     status |-> r.status, body |-> r.body, calls |-> r.calls, day |-> r.day]

(***************************************************************************)
(* The process: one hosting shell, its two globals, the clock.             *)
(***************************************************************************)
Idle ==
    /\ m_in = None /\ m_out = None /\ p_in = None /\ p_out = None
    /\ pc = <<>> /\ cur = <<>> /\ resp = <<>> /\ done = <<>> /\ hist = None

Init ==
    /\ shell \in {"web", "lambda"}
    /\ env_key \in {"", "secret"}
    /\ data_cache = None
    /\ last_loaded = 0
    /\ now = StartTime
    /\ last = NoRequest
    /\ Idle

WebRequest ==
    /\ shell = "web"
    /\ last = NoRequest
    /\ \E q \in DayArgs, fc \in ForecastResponses, kn \in KnmiBehaviours :
        LET r == get_weather(data_cache, last_loaded, now, q, fc, env_key, kn)
        IN  /\ data_cache' = r.data_cache
            /\ last_loaded' = r.last_loaded
            /\ last' = Request("web", q, fc, kn, r)
    /\ UNCHANGED <<shell, now, env_key, m_in, m_out, p_in, p_out,
                   pc, cur, resp, done, hist>>

LambdaRequest ==
    /\ shell = "lambda"
    /\ last = NoRequest
    /\ \E q \in DayArgs, fc \in ForecastResponses, kn \in KnmiBehaviours :
        LET r == lambda_handler(data_cache, last_loaded, now, q, fc, env_key, kn)
        IN  /\ data_cache' = r.data_cache
            /\ last_loaded' = r.last_loaded
            /\ last' = Request("lambda", q, fc, kn, r)
    /\ UNCHANGED <<shell, now, env_key, m_in, m_out, p_in, p_out,
                   pc, cur, resp, done, hist>>

\* The response reaches the client; the handler has returned.
Reply ==
    /\ last # NoRequest
    /\ last' = NoRequest
    /\ UNCHANGED <<shell, data_cache, last_loaded, now, env_key, m_in, m_out,
                   p_in, p_out, pc, cur, resp, done, hist>>

\* Time passes between requests.
TickSteps == {60, 61}

Tick ==
    /\ last = NoRequest
    /\ \E d \in TickSteps :
        /\ now + d <= StartTime + MaxElapsed
        /\ now' = now + d
    /\ UNCHANGED <<shell, data_cache, last_loaded, env_key, last, m_in, m_out,
                   p_in, p_out, pc, cur, resp, done, hist>>

Next == WebRequest \/ LambdaRequest \/ Reply \/ Tick

Spec == Init /\ [][Next]_vars

(***************************************************************************)
(* Properties of the request handlers, stated over Spec.                   *)
(***************************************************************************)
Handled == last # NoRequest

\* The handler body ran (FastAPI did not reject the query before calling it).
Entered == Handled /\ last.status # 422

Count(calls, c) == Cardinality({i \in 1..Len(calls) : calls[i] = c})

\* The forecast provider gave no forecast: no response, an HTTP error status,
\* or a body that is not JSON.
FetchFailed(fc) == fc.kind = "neterr" \/ fc.status >= 400 \/ ~fc.isjson

\* C1: when the forecast payload is available and the requested day index is
\* at or beyond the number of forecast days in it, the response is 400 and
\* never 200 (both shells).
C1_OutOfRangeIs400 ==
    (Entered /\ data_cache # None /\ IsForecast(data_cache)
        /\ last.day >= NumDays(data_cache))
    => last.status = 400

\* C2: a request whose forecast fetch fails with nothing cached answers 500
\* with an `error` field in the body and leaves the cache empty; one whose
\* fetch fails with a payload cached answers 200 built from that payload,
\* whatever its age.
C2_FailedFetch ==
    (Entered /\ Count(last.calls, "forecast") = 1 /\ FetchFailed(last.fc))
    => IF last.pre_cache = None
       THEN /\ last.status = 500
            /\ "error" \in DOMAIN last.body
            /\ data_cache = None
       ELSE /\ last.status = 200
            /\ data_cache = last.pre_cache
            /\ \A f \in OutFields :
                 last.body[f] = get_val(last.pre_cache.daily, FieldOf[f], last.day).v

\* C3: a handled request makes exactly one forecast call when nothing is
\* cached, no forecast call when the cached payload was loaded at most 120
\* seconds ago, and exactly one when it was loaded 121 seconds ago or more.
C3_FreshnessWindow ==
    Entered =>
        LET n == Count(last.calls, "forecast")
            age == last.t - last.pre_loaded
        IN  /\ last.pre_cache = None => n = 1
            /\ (last.pre_cache # None /\ age <= 120) => n = 0
            /\ (last.pre_cache # None /\ age >= 121) => n = 1

\* A request exactly 120 seconds after the load, served from the cache.
C3_Witness ==
    /\ Entered /\ last.pre_cache # None
    /\ last.t - last.pre_loaded = 120
    /\ last.calls = <<>> /\ last.status = 200

\* C4: data_cache is None or a forecast structure with a `daily` mapping.
C4_CacheIsForecast == data_cache = None \/ IsForecast(data_cache)

\* The warnings path of the request ran and raised.
WarningsFailed ==
    /\ Entered /\ Count(last.calls, "knmi_list") = 1
    /\ WarningsPath(last.kn, Instant(last.t, 0)).exc # ""

\* A warnings provider that serves one well-formed document without warnings.
KnQuiet ==
    [listing |-> Json([files |-> <<[created |-> 1, downloadUrl |-> "new"]>>]),
     dl |-> [old |-> Text(Xml(<<>>)), new |-> Text(Xml(<<>>))]]

Handler(sh, cache, loaded, t, q, fc, key, kn) ==
    IF sh = "web" THEN get_weather(cache, loaded, t, q, fc, key, kn)
    ELSE lambda_handler(cache, loaded, t, q, fc, key, kn)

\* C5: a failure anywhere in the warnings path does not reach the caller and
\* does not change the response: status and body are those of the same
\* request with no warnings, and with a forecast payload and a valid day
\* index the response is 200 with warnings [].
C5_WarningsFailureAbsorbed ==
    WarningsFailed =>
        LET r == Handler(last.shell, last.pre_cache, last.pre_loaded, last.t,
                         last.q, last.fc, env_key, KnQuiet)
        IN  /\ last.status = r.status
            /\ last.body = r.body
            /\ (IsForecast(data_cache) /\ last.day < NumDays(data_cache))
                  => (last.status = 200 /\ last.body.warnings = <<>>)

\* The download succeeded, the XML is malformed, the response is still 200.
C5_Witness ==
    /\ WarningsFailed
    /\ last.calls = <<"forecast", "knmi_list", "knmi_download">>
    /\ last.status = 200 /\ last.body.warnings = <<>>
    /\ last.day < NumDays(data_cache)

\* C6: with no warnings credential configured a request makes no call to
\* the warnings provider and answers with an empty warnings list (both shells).
C6_NoKeyNoWarningsCalls ==
    (Entered /\ env_key = "")
    => /\ Count(last.calls, "knmi_list") = 0
       /\ Count(last.calls, "knmi_download") = 0
       /\ last.status = 200 => last.body.warnings = <<>>

\* The message of an error body, whichever key the shell puts it under.
Message(b) == IF "detail" \in DOMAIN b THEN b.detail ELSE b.error

\* C9: from the same cache state, on the same query, clock, credential and
\* upstream behaviour, get_weather and lambda_handler make the same calls,
\* answer with the same status and an equivalent body, and leave the same
\* cache and timestamp.
C9_ShellsAgree ==
    Handled =>
        LET a == get_weather(last.pre_cache, last.pre_loaded, last.t, last.q,
                             last.fc, env_key, last.kn)
            b == lambda_handler(last.pre_cache, last.pre_loaded, last.t, last.q,
                                last.fc, env_key, last.kn)
        IN  /\ a.status = b.status
            /\ a.calls = b.calls
            /\ a.data_cache = b.data_cache
            /\ a.last_loaded = b.last_loaded
            /\ IF a.status = 200 THEN a.body = b.body
               ELSE Message(a.body) = Message(b.body)

(***************************************************************************)
(* weather_response_mapper on its own: the arguments are drawn from bounded *)
(* sets, the call stores the returned dict.                                 *)
(***************************************************************************)
NoProcess ==
    /\ shell = "" /\ env_key = "" /\ data_cache = None /\ last_loaded = 0
    /\ now = StartTime /\ last = NoRequest

SomeKeys == {"", "temperature_2m_min", "sunrise", "wind_gusts_10m_max"}

MapPayloads ==
    {Ragged(1, n, gone, cut) : n \in 0..MaxDays, gone \in SomeKeys, cut \in SomeKeys}

W1 == [color |-> "yellow", type |-> "WIND"]
W2 == [color |-> "red", type |-> "SNEEUW"]

MapWarnings == {NoWarnings, WList(<<>>), WList(<<W1>>), WList(<<W2, W1>>)}

MapInit ==
    /\ m_in \in [response : MapPayloads, day_index : 0..MaxDayArg,
                 warnings : MapWarnings]
    /\ m_out = None
    /\ NoProcess
    /\ p_in = None /\ p_out = None
    /\ pc = <<>> /\ cur = <<>> /\ resp = <<>> /\ done = <<>> /\ hist = None

MapCall ==
    /\ m_out = None
    /\ m_out' = MapToDict(m_in.response, m_in.day_index, m_in.warnings)
    /\ UNCHANGED <<shell, data_cache, last_loaded, now, env_key, last, m_in,
                   p_in, p_out, pc, cur, resp, done, hist>>

MapNext == MapCall

MapSpec == MapInit /\ [][MapNext]_vars

\* The value of upstream field k on the requested day, null when the field is
\* absent or has no entry for that day.
Expected(k) ==
    LET daily == m_in.response.daily
    IN  IF k \in DOMAIN daily /\ Len(daily[k]) > m_in.day_index
        THEN daily[k][m_in.day_index + 1] ELSE Null

\* C8: for every payload, non-negative day index and warnings sequence, each
\* of the eleven fields of the returned dict is the payload's value at the
\* day index, or null when the field is absent or too short; `warnings` is
\* the given sequence, and [] when that is empty or None.
C8_MapperProjects ==
    m_out # None =>
        /\ m_out.exc = ""
        /\ m_out.val.min_temp = Expected("temperature_2m_min")
        /\ m_out.val.max_temp = Expected("temperature_2m_max")
        /\ m_out.val.rain = Expected("rain_sum")
        /\ m_out.val.showers = Expected("showers_sum")
        /\ m_out.val.snow = Expected("snowfall_sum")
        /\ m_out.val.sunrise = Expected("sunrise")
        /\ m_out.val.sunset = Expected("sunset")
        /\ m_out.val.min_visibility = Expected("visibility_min")
        /\ m_out.val.max_visibility = Expected("visibility_max")
        /\ m_out.val.wind_speed = Expected("wind_speed_10m_max")
        /\ m_out.val.wind_gusts = Expected("wind_gusts_10m_max")
        /\ m_out.val.warnings =
             (IF m_in.warnings.isNone THEN <<>> ELSE m_in.warnings.items)

\* A call on the last day of a payload in which one field is a day short and
\* one is absent, with two warnings.
C8_Witness ==
    /\ m_out # None
    /\ m_in.day_index = MaxDays - 1
    /\ m_out.val.min_temp = Null
    /\ m_out.val.sunrise = Null
    /\ m_out.val.rain = Val(1, "rain_sum", MaxDays - 1)
    /\ m_out.val.warnings = <<W2, W1>>

(***************************************************************************)
(* parse_knmi_warnings on its own: the clock and a document of well-formed *)
(* warning elements are drawn from bounded sets.                           *)
(***************************************************************************)
Half == 500000      \* half a second, in microseconds

ParseClocks == {Instant(StartTime, 0), Instant(StartTime, Half)}

\* 23:59:59 on the day after the day of the run's start.
Eot == ((StartTime \div SecondsPerDay) + 1) * SecondsPerDay + (SecondsPerDay - 1)

StartTexts ==
    {IsoUtc(StartTime - 3600, 0), IsoUtc(StartTime + 3 * SecondsPerDay, 0),
     IsoUtc(Eot, 0), IsoUtc(Eot, Half), IsoUtc(Eot + 1, 0)}

EndTexts ==
    {IsoUtc(StartTime + 3600, 0), IsoUtc(StartTime - 60, 0),
     IsoUtc(StartTime, 0), IsoUtc(StartTime, Half)}

Elements ==
    [startTime : StartTexts, endTime : EndTexts,
     awarenessLevel : {"yellow", "red"}, phenomenon : {"WIND"}]

Documents == UNION {[1..n -> Elements] : n \in 0..MaxWarn}

ParseInit ==
    /\ p_in \in [xml_text : {Xml(ws) : ws \in Documents}, now : ParseClocks]
    /\ p_out = None
    /\ NoProcess
    /\ m_in = None /\ m_out = None
    /\ pc = <<>> /\ cur = <<>> /\ resp = <<>> /\ done = <<>> /\ hist = None

ParseCall ==
    /\ p_out = None
    /\ p_out' = parse_knmi_warnings(p_in.xml_text, p_in.now)
    /\ UNCHANGED <<shell, data_cache, last_loaded, now, env_key, last, m_in,
                   m_out, p_in, pc, cur, resp, done, hist>>

ParseNext == ParseCall

ParseSpec == ParseInit /\ [][ParseNext]_vars

\* Active by the rule: starts at or before 23:59:59 of tomorrow (UTC) and ends
\* at or after the current instant.
Active(w) ==
    /\ Leq(Instant(w.startTime.sec, w.startTime.us), Instant(Eot, 0))
    /\ Leq(p_in.now, Instant(w.endTime.sec, w.endTime.us))

Projection(w) == [color |-> w.awarenessLevel, type |-> w.phenomenon]

RECURSIVE ActiveOf(_)
ActiveOf(ws) ==
    IF ws = <<>> THEN <<>>
    ELSE (IF Active(Head(ws)) THEN <<Projection(Head(ws))>> ELSE <<>>)
         \o ActiveOf(Tail(ws))

\* C7: parse_knmi_warnings returns, in document order, the {color, type} of
\* exactly the warnings that start at or before 23:59:59 of tomorrow and end
\* at or after now; no warning starting after 23:59:59 of tomorrow is kept.
C7_ActiveWarningsOnly ==
    p_out # None =>
        /\ p_out.exc = ""
        /\ p_out.val = ActiveOf(p_in.xml_text.warnings)

(***************************************************************************)
(* Concurrent requests in one process (FastAPI runs a `def` endpoint in a  *)
(* thread pool).  Each request reads the clock and last_loaded, tests      *)
(* freshness, fetches, stores data_cache, stores last_loaded and builds    *)
(* its response from data_cache, as separate steps.                        *)
(***************************************************************************)
Threads == 1..NumThreads

ConcResponses ==
    {FcNetError} \cup {FcHttp(200, Forecast(v, 1)) : v \in 1..MaxVer}

ConcKnmi == {KnQuiet, [KnQuiet EXCEPT !.listing = NetError]}

FetchRaises(fc) ==
    IF shell = "web" THEN WebFetchRaises(fc) ELSE LambdaFetchRaises(fc)

ConcInit ==
    /\ shell \in {"web", "lambda"}
    /\ env_key = "secret"
    /\ data_cache = None
    /\ last_loaded = 0
    /\ now = StartTime
    /\ last = NoRequest
    /\ m_in = None /\ m_out = None /\ p_in = None /\ p_out = None
    /\ pc = [i \in Threads |-> "start"]
    /\ cur = [i \in Threads |-> [current_time |-> 0, cache_age |-> 0]]
    /\ resp = [i \in Threads |-> None]
    /\ done = [i \in Threads |-> [status |-> 0, src |-> None]]
    /\ hist = [fetched |-> {}, cache_by |-> 0, stamp_by |-> 0, back |-> FALSE]

ConcFrame == UNCHANGED <<shell, env_key, last, m_in, m_out, p_in, p_out>>

\* current_time = time.time(); cache_age = current_time - last_loaded
CStart(i) ==
    /\ pc[i] = "start"
    /\ cur' = [cur EXCEPT ![i] = [current_time |-> now,
                                  cache_age |-> now - last_loaded]]
    /\ pc' = [pc EXCEPT ![i] = "test"]
    /\ UNCHANGED <<data_cache, last_loaded, now, resp, done, hist>>
    /\ ConcFrame

\* if data_cache is None or cache_age > CACHE_TTL:
CTest(i) ==
    /\ pc[i] = "test"
    /\ pc' = [pc EXCEPT ![i] = IF NeedsFetch(data_cache, cur[i].cache_age)
                               THEN "fetch" ELSE "build"]
    /\ UNCHANGED <<data_cache, last_loaded, now, cur, resp, done, hist>>
    /\ ConcFrame

\* the forecast call and .json()
CFetch(i) ==
    /\ pc[i] = "fetch"
    /\ \E fc \in ConcResponses :
        IF FetchRaises(fc)
        THEN /\ pc' = [pc EXCEPT ![i] = "except"]
             /\ UNCHANGED <<resp, hist>>
        ELSE /\ pc' = [pc EXCEPT ![i] = "store"]
             /\ resp' = [resp EXCEPT ![i] = fc.json]
             /\ hist' = [hist EXCEPT !.fetched = @ \cup {fc.json}]
    /\ UNCHANGED <<data_cache, last_loaded, now, cur, done>>
    /\ ConcFrame

\* data_cache = response
CStoreCache(i) ==
    /\ pc[i] = "store"
    /\ data_cache' = resp[i]
    /\ hist' = [hist EXCEPT !.cache_by = i]
    /\ pc' = [pc EXCEPT ![i] = "stamp"]
    /\ UNCHANGED <<last_loaded, now, cur, resp, done>>
    /\ ConcFrame

\* last_loaded = current_time
CStamp(i) ==
    /\ pc[i] = "stamp"
    /\ last_loaded' = cur[i].current_time
    /\ hist' = [hist EXCEPT !.stamp_by = i,
                            !.back = @ \/ cur[i].current_time < last_loaded]
    /\ pc' = [pc EXCEPT ![i] = "build"]
    /\ UNCHANGED <<data_cache, now, cur, resp, done>>
    /\ ConcFrame

\* except: if data_cache is None: answer 500
CExcept(i) ==
    /\ pc[i] = "except"
    /\ IF data_cache = None
       THEN /\ done' = [done EXCEPT ![i] = [status |-> 500, src |-> None]]
            /\ pc' = [pc EXCEPT ![i] = "done"]
       ELSE /\ pc' = [pc EXCEPT ![i] = "build"]
            /\ UNCHANGED done
    /\ UNCHANGED <<data_cache, last_loaded, now, cur, resp, hist>>
    /\ ConcFrame

\* the warnings block and the response block, reading data_cache
CBuild(i) ==
    /\ pc[i] = "build"
    /\ \E kn \in ConcKnmi :
        LET n == Instant(cur[i].current_time, 0)
            b == IF shell = "web"
                 THEN WebBuild(data_cache, 0, WebWarnings(env_key, kn, n))
                 ELSE LambdaBuild(data_cache, 0, LambdaWarnings(env_key, kn, n))
        IN  done' = [done EXCEPT ![i] = [status |-> b.status, src |-> data_cache]]
    /\ pc' = [pc EXCEPT ![i] = "done"]
    /\ UNCHANGED <<data_cache, last_loaded, now, cur, resp, hist>>
    /\ ConcFrame

CTick ==
    /\ \E d \in TickSteps :
        /\ now + d <= StartTime + MaxElapsed
        /\ now' = now + d
    /\ UNCHANGED <<data_cache, last_loaded, pc, cur, resp, done, hist>>
    /\ ConcFrame

ConcNext ==
    \/ \E i \in Threads :
          CStart(i) \/ CTest(i) \/ CFetch(i) \/ CStoreCache(i) \/ CStamp(i)
          \/ CExcept(i) \/ CBuild(i)
    \/ CTick

ConcSpec == ConcInit /\ [][ConcNext]_vars

\* C10: under any interleaving of concurrent requests the cache holds only a
\* payload returned by a successful fetch, every 200 is built from such a
\* payload, the timestamp never moves backwards, and once all requests have
\* finished the cached payload and the timestamp were written by the same
\* request.
C10_LastWriterWins ==
    /\ data_cache = None \/ data_cache \in hist.fetched
    /\ \A i \in Threads : done[i].status = 200 => done[i].src \in hist.fetched
    /\ ~hist.back
    /\ (\A i \in Threads : pc[i] = "done") => hist.cache_by = hist.stamp_by

====
